---- MODULE Spec2Model ----
(***************************************************************************)
(* The OpenHarmony N-API bridge of MMKV (native_bridge.cpp): the host      *)
(* value <-> native value conversions, the NAPI_CALL error macro, the 19   *)
(* entry points and the dispatch table registered at module load.          *)
(*                                                                         *)
(* The storage engine (class MMKV) is not part of the bridge; it appears   *)
(* here as a map from key to typed value per instance, whose set and       *)
(* defaultMMKV calls may fail.                                             *)
(*                                                                         *)
(* TLC's integers are 32 bits wide, so the 32-bit and 64-bit integer types *)
(* are modelled with Width32 and Width64 bits; wrap-around is kept.        *)
(***************************************************************************)
EXTENDS Integers, Sequences, FiniteSets, TLC

VARIABLES
    registered,        \* number of napi_module_register calls made so far
    exports,           \* the properties Init defined: name -> native function
    g_android_tmpDir,  \* the bridge's only global
    store,             \* engine: instance address -> key -> typed value
    process,           \* "running" | "aborted" (uncaught C++ exception)
    last,              \* what the latest entry point call did
    conv               \* SpecString: one NValueToString conversion

vars == <<registered, exports, g_android_tmpDir, store, process, last, conv>>

----------------------------------------------------------------------------
\* Bounds of the model.

\* Bits of the model's int32_t / uint32_t.
Width32 == 8
\* Bits of the model's int64_t / uint64_t (and of a pointer).
Width64 == 16
\* Largest value read from an uninitialised size_t.
MaxUninitSize == 1
\* Longest host string converted in SpecString.
MaxStrLen == 48

Pow2(n) == 2 ^ n
Min(a, b) == IF a < b THEN a ELSE b
Max(a, b) == IF a > b THEN a ELSE b

----------------------------------------------------------------------------
\* Host values (napi_value) and native values.

Undefined == [kind |-> "undefined", val |-> 0]
Null == [kind |-> "null", val |-> 0]
HBool(b) == [kind |-> "boolean", val |-> b]
Num(n) == [kind |-> "number", val |-> n]
BigInt(n) == [kind |-> "bigint", val |-> n]
HStr(s) == [kind |-> "string", val |-> s]
HBuf(b) == [kind |-> "arraybuffer", val |-> b]
\* A C++ nullptr returned in place of a napi_value.
NullPtr == [kind |-> "nullptr", val |-> 0]
\* Marks an argument the entry point never looked at.
Unread == [kind |-> "unread", val |-> 0]

Native(T, v) == [type |-> T, data |-> v]
\* An absent key of the engine, and "no expiration argument".
Absent == [type |-> "absent", data |-> 0]
NoExpiration == -1

Zeros(n) == [i \in 1..n |-> 0]
\* An ASCII host string of n bytes, as its UTF-8 bytes.
Text(n, c) == [i \in 1..n |-> c + (i % 2)]

----------------------------------------------------------------------------
\* std::string as built by the OpenHarmony NDK (libc++, 64-bit): an empty
\* string has the 22-byte inline buffer; growing from it allocates
\* max(n, 2 * 22) + 1 bytes rounded up to 16, and capacity() is one less.
StringCapacity(n) ==
    IF n <= 22 THEN 22 ELSE ((Max(n, 44) + 1 + 15) \div 16) * 16 - 1

\* napi_get_value_string_utf8(env, value, buf, bufsize, nullptr): the bytes the
\* host writes into buf before the terminator, at most bufsize - 1 of them.
Utf8Copied(s, bufsize) == SubSeq(s, 1, Min(Len(s), bufsize - 1))

\* result.resize(size) then the copy into result.data(): the copied bytes,
\* the rest of the size bytes as resize left them (zero).
ResizeAndCopy(s) ==
    LET size == Len(s)
        copied == Utf8Copied(s, StringCapacity(size))
    IN  copied \o Zeros(size - Len(copied))

IsNValueUndefined(value) == value.kind = "undefined"

StrOutcome(s, threw, aborts) == [str |-> s, threw |-> threw, aborts |-> aborts]

\* NAPI_CALL_RET around a failed host call: throws and returns only when no
\* exception is pending; with one pending the function goes on.
\* NAPI_CALL_RET without its return statement.
NapiCallNeverReturns(isPending) == FALSE

NapiCallReturns(isPending) == ~isPending

\* NValueToString: the set of outcomes [str, threw, aborts].  With a non-string
\* value both host calls fail.  When an exception is already pending the macro
\* does not return, size stays uninitialised, and resize either yields that
\* many zero bytes or throws std::length_error out of the entry point.
NValueToString(value, maybeUndefined, isPending) ==
    IF maybeUndefined /\ IsNValueUndefined(value)
    THEN {StrOutcome(<<>>, FALSE, FALSE)}
    ELSE IF value.kind = "string"
    THEN {StrOutcome(ResizeAndCopy(value.val), FALSE, FALSE)}
    ELSE IF NapiCallReturns(isPending)
    THEN {StrOutcome(<<>>, TRUE, FALSE)}
    ELSE {StrOutcome(Zeros(n), FALSE, FALSE) : n \in 0..MaxUninitSize}
         \cup {StrOutcome(<<>>, FALSE, TRUE)}

StringToNValue(s) == HStr(s)

\* MMBuffer(): the empty buffer.
EmptyMMBuffer == <<>>

\* A buffer conversion that keeps the first byte only.
NValueToMMBufferFirstByte(value, maybeUndefined) ==
    IF value.kind = "arraybuffer" THEN SubSeq(value.val, 1, Min(1, Len(value.val)))
    ELSE EmptyMMBuffer

\* NValueToMMBuffer: the bytes of an array buffer, the empty buffer otherwise.
NValueToMMBuffer(value, maybeUndefined) ==
    IF maybeUndefined /\ IsNValueUndefined(value) THEN EmptyMMBuffer
    ELSE IF value.kind = "arraybuffer" THEN value.val
    ELSE EmptyMMBuffer

MMBufferToNValue(b) == HBuf(b)

\* napi_create_double then napi_coerce_to_bool.
BoolToNValue(b) == HBool((IF b THEN 1 ELSE 0) # 0)

\* What an uninitialised local may hold when the host call that should have
\* written it failed: a sample of the type's values.
UninitBool == BOOLEAN
UninitInt32 == {0, -1}
UninitUInt32 == {0, 7}
UninitInt64 == {0, -1}
UninitUInt64 == {0, 5}
UninitDouble == {0, -1}

\* The host's number -> integer conversions wrap modulo 2^width.
WrapUnsigned(n, width) == n % Pow2(width)
WrapSigned(n, width) ==
    LET m == n % Pow2(width)
    IN  IF m >= Pow2(width - 1) THEN m - Pow2(width) ELSE m

NValueToBool(value) ==
    IF value.kind = "boolean" THEN {value.val} ELSE UninitBool
NValueToInt32(value) ==
    IF value.kind = "number" THEN {WrapSigned(value.val, Width32)} ELSE UninitInt32
NValueToUInt32(value) ==
    IF value.kind = "number" THEN {WrapUnsigned(value.val, Width32)} ELSE UninitUInt32
NValueToDouble(value) ==
    IF value.kind = "number" THEN {value.val} ELSE UninitDouble
\* A signed conversion that clamps to the range where the host wraps.
NValueToInt64Saturating(value) ==
    IF value.kind = "bigint"
    THEN {Max(-Pow2(Width64 - 1), Min(Pow2(Width64 - 1) - 1, value.val))}
    ELSE UninitInt64

\* The lossless flag of the bigint conversions is not looked at.
NValueToInt64(value) ==
    IF value.kind = "bigint" THEN {WrapSigned(value.val, Width64)} ELSE UninitInt64
NValueToUInt64(value) ==
    IF value.kind = "bigint" THEN {WrapUnsigned(value.val, Width64)} ELSE UninitUInt64

Int32ToNValue(x) == Num(x)
UInt32ToNValue(x) == Num(x)
DoubleToNValue(x) == Num(x)
Int64ToNValue(x) == BigInt(x)
UInt64ToNValue(x) == BigInt(x)

Types == {"Bool", "Int32", "UInt32", "Int64", "UInt64", "Double", "String", "Bytes"}
ScalarTypes == Types \ {"String", "Bytes"}

\* The value conversion encodeT and decodeT use for type T: the set of
\* outcomes [val, threw].  Only the string conversion can throw.
ValOutcome(v, threw) == [val |-> v, threw |-> threw]
NValueToT(T, value, isPending) ==
    CASE T = "Bool" -> {ValOutcome(x, FALSE) : x \in NValueToBool(value)}
      [] T = "Int32" -> {ValOutcome(x, FALSE) : x \in NValueToInt32(value)}
      [] T = "UInt32" -> {ValOutcome(x, FALSE) : x \in NValueToUInt32(value)}
      [] T = "Int64" -> {ValOutcome(x, FALSE) : x \in NValueToInt64(value)}
      [] T = "UInt64" -> {ValOutcome(x, FALSE) : x \in NValueToUInt64(value)}
      [] T = "Double" -> {ValOutcome(x, FALSE) : x \in NValueToDouble(value)}
      [] T = "String" ->
            {ValOutcome(o.str, o.threw) : o \in NValueToString(value, FALSE, isPending)}
      [] T = "Bytes" -> {ValOutcome(NValueToMMBuffer(value, FALSE), FALSE)}

TToNValue(T, x) ==
    CASE T = "Bool" -> BoolToNValue(x)
      [] T = "Int32" -> Int32ToNValue(x)
      [] T = "UInt32" -> UInt32ToNValue(x)
      [] T = "Int64" -> Int64ToNValue(x)
      [] T = "UInt64" -> UInt64ToNValue(x)
      [] T = "Double" -> DoubleToNValue(x)
      [] T = "String" -> StringToNValue(x)
      [] T = "Bytes" -> MMBufferToNValue(x)

----------------------------------------------------------------------------
\* The arguments the host passes.

\* The shortest string that fills its buffer: size() = capacity().
LongLen == StringCapacity(0)

\* The engine instances that exist; a handle is an instance's address.
Instances == {Pow2(Width64 - 1) + 64}

HandleArgs == {BigInt(0)} \cup {BigInt(a) : a \in Instances}
KeyArgs == {HStr(<<>>), HStr(<<107>>), Undefined}
ExpirationArgs == {Undefined, Num(0), Num(Pow2(Width32) + 7), Null}

ValueArgs(T) ==
    CASE T = "Bool" -> {HBool(TRUE), HBool(FALSE)}
      [] T = "Int32" -> {Num(-1), Num(Pow2(Width32 - 1) + 7)}
      [] T = "UInt32" -> {Num(7), Num(-1)}
      [] T = "Int64" -> {BigInt(-1), BigInt(Pow2(Width64 - 1))}
      [] T = "UInt64" -> {BigInt(5), BigInt(-1)}
      [] T = "Double" -> {Num(-1), Num(Pow2(Width32) + 7)}
      [] T = "String" -> {HStr(Text(2, 97)), HStr(Text(LongLen, 97)), Undefined}
      [] T = "Bytes" -> {HBuf(<<1, 2>>), Undefined}

DefaultArgs(T) ==
    CASE T = "String" -> {Undefined, HStr(<<100>>)}
      [] T = "Bytes" -> {Undefined, HBuf(<<3>>)}
      [] OTHER -> ValueArgs(T)

\* The native values of type T the bridge can hand to the engine.
NativeVals(T) ==
    {o.val : o \in UNION {NValueToT(T, v, FALSE) : v \in ValueArgs(T)}}
NativeKeys ==
    {o.str : o \in UNION {NValueToString(k, FALSE, FALSE) : k \in KeyArgs}} \ {<<>>}

----------------------------------------------------------------------------
\* The engine, as the bridge sees it.

EngCall(op, key, val, exp, res) ==
    [op |-> op, key |-> key, val |-> val, exp |-> exp, res |-> res]

\* kv->set(value, key [, expiration]): stores on success, nothing otherwise.
Holds(st, kv, key) == kv \in DOMAIN st /\ key \in DOMAIN st[kv]
EngineSet(st, kv, key, nv, ok) ==
    IF ok /\ Holds(st, kv, key) THEN [st EXCEPT ![kv][key] = nv] ELSE st

\* kv->getT(key, defaultValue): the stored value, the default for an absent
\* key; a value stored as another type decodes to anything.
EngineGet(st, kv, key, T, defaultValue) ==
    LET e == IF Holds(st, kv, key) THEN st[kv][key] ELSE Absent
    IN  IF e.type = "absent" THEN {defaultValue}
        ELSE IF e.type = T THEN {e.data}
        ELSE {defaultValue} \cup NativeVals(T)

\* kv->getString / kv->getBytes(key, result): [found, val].
EngineGetBuf(st, kv, key, T) ==
    LET e == IF Holds(st, kv, key) THEN st[kv][key] ELSE Absent
    IN  IF e.type = "absent" THEN {[found |-> FALSE, val |-> <<>>]}
        ELSE IF e.type = T THEN {[found |-> TRUE, val |-> e.data]}
        ELSE {[found |-> FALSE, val |-> <<>>]}
             \cup {[found |-> TRUE, val |-> v] : v \in NativeVals(T)}

\* MMKV::defaultMMKV(mode, cryptKey): an instance, or null.
DefaultMMKVResults == {0} \cup Instances

----------------------------------------------------------------------------
\* Module load.

Fn(name, method) == [name |-> name, method |-> method]

\* The array with one name bound to its neighbour's function.
descSwapped == <<
    Fn("initialize", "initialize"),
    Fn("version", "version"),
    Fn("getDefaultMMKV", "getDefaultMMKV"),
    Fn("encodeBool", "encodeBool"),
    Fn("decodeBool", "decodeBool"),
    Fn("encodeInt32", "encodeUInt32"),
    Fn("decodeInt32", "decodeInt32"),
    Fn("encodeUInt32", "encodeUInt32"),
    Fn("decodeUInt32", "decodeUInt32"),
    Fn("encodeInt64", "encodeInt64"),
    Fn("decodeInt64", "decodeInt64"),
    Fn("encodeUInt64", "encodeUInt64"),
    Fn("decodeUInt64", "decodeUInt64"),
    Fn("encodeDouble", "encodeDouble"),
    Fn("decodeDouble", "decodeDouble"),
    Fn("encodeString", "encodeString"),
    Fn("decodeString", "decodeString"),
    Fn("encodeBytes", "encodeBytes"),
    Fn("decodeBytes", "decodeBytes") >>

\* The napi_property_descriptor array of Init.
desc == <<
    Fn("initialize", "initialize"),
    Fn("version", "version"),
    Fn("getDefaultMMKV", "getDefaultMMKV"),
    Fn("encodeBool", "encodeBool"),
    Fn("decodeBool", "decodeBool"),
    Fn("encodeInt32", "encodeInt32"),
    Fn("decodeInt32", "decodeInt32"),
    Fn("encodeUInt32", "encodeUInt32"),
    Fn("decodeUInt32", "decodeUInt32"),
    Fn("encodeInt64", "encodeInt64"),
    Fn("decodeInt64", "decodeInt64"),
    Fn("encodeUInt64", "encodeUInt64"),
    Fn("decodeUInt64", "decodeUInt64"),
    Fn("encodeDouble", "encodeDouble"),
    Fn("decodeDouble", "decodeDouble"),
    Fn("encodeString", "encodeString"),
    Fn("decodeString", "decodeString"),
    Fn("encodeBytes", "encodeBytes"),
    Fn("decodeBytes", "decodeBytes") >>

\* napi_define_properties: one property per descriptor, a later descriptor of
\* the same name replacing an earlier one.
DefineProperties(d) ==
    [n \in {d[i].name : i \in DOMAIN d} |->
        LET i == CHOOSE i \in DOMAIN d :
                    /\ d[i].name = n
                    /\ \A j \in DOMAIN d : d[j].name = n => j <= i
        IN  d[i].method]

NoCall == [name |-> "", fn |-> "", args |-> <<>>, ret |-> NullPtr,
           thrown |-> 0, calls |-> <<>>]

Done(name, fn, args, ret, thrown, calls) ==
    [name |-> name, fn |-> fn, args |-> args, ret |-> ret,
     thrown |-> thrown, calls |-> calls]

\* The constructor RegisterMMKVModule, run once when the library is loaded.
RegisterMMKVModule ==
    /\ registered = 0
    /\ registered' = registered + 1
    /\ UNCHANGED <<exports, g_android_tmpDir, store, process, last, conv>>

\* Init, the nm_register_func the host runs on the registered module.
Init ==
    /\ registered > 0
    /\ DOMAIN exports = {}
    /\ exports' = DefineProperties(desc)
    /\ UNCHANGED <<registered, g_android_tmpDir, store, process, last, conv>>

\* The host calls property n of the exports; method is what runs.
Bound(n, method) ==
    /\ process = "running"
    /\ n \in DOMAIN exports
    /\ exports[n] = method

\* NAPI_CALL(napi_get_cb_info(...)) failing at the top of an entry point.
CbInfoFails(n, method, argc) ==
    /\ last' = Done(n, method, [i \in 1..argc |-> Unread], NullPtr, 1, <<>>)
    /\ UNCHANGED <<registered, exports, g_android_tmpDir, store, process, conv>>

Count(b) == IF b THEN 1 ELSE 0

\* The test of encodeT and decodeT without its key half.
HasKv(handle, key) == handle # 0

\* if (kv && key.length() > 0)
HasKvAndKey(handle, key) == handle # 0 /\ Len(key) > 0

\* getDefaultMMKV falling back whatever the first call gave.
AlwaysPlainInstance(kv) == TRUE

\* if (!kv), the fall back of getDefaultMMKV to the plain instance.
NeedsPlainInstance(kv) == kv = 0

----------------------------------------------------------------------------
\* The entry points.

Others == <<registered, exports, process, conv>>

\* encodeT for every T: handle and key are converted first; value and
\* expiration only when the handle is non-null and the key non-empty.
EncodeT(T, method) ==
    \E n \in DOMAIN exports :
        /\ Bound(n, method)
        /\ \/ CbInfoFails(n, method, 4)
           \/ \E h \in HandleArgs, k \in KeyArgs :
              \E handle \in NValueToUInt64(h), key \in NValueToString(k, FALSE, FALSE) :
                 IF HasKvAndKey(handle, key.str)
                 THEN \E v \in ValueArgs(T), e \in ExpirationArgs :
                      \E value \in NValueToT(T, v, key.threw), ret \in BOOLEAN :
                      \E expiration \in (IF IsNValueUndefined(e) THEN {NoExpiration}
                                         ELSE NValueToUInt32(e)) :
                         /\ store' = EngineSet(store, handle, key.str,
                                               Native(T, value.val), ret)
                         /\ last' = Done(n, method, <<h, k, v, e>>, BoolToNValue(ret),
                                         Count(key.threw) + Count(value.threw),
                                         <<EngCall("set", key.str, Native(T, value.val),
                                                   expiration, Native("Bool", ret))>>)
                         /\ UNCHANGED <<g_android_tmpDir, Others>>
                 ELSE /\ last' = Done(n, method, <<h, k, Unread, Unread>>,
                                      BoolToNValue(FALSE), Count(key.threw), <<>>)
                      /\ UNCHANGED <<g_android_tmpDir, store, Others>>

\* decodeT for the scalar types: handle, key and default are all converted
\* before the handle and key are looked at.
DecodeT(T, method) ==
    \E n \in DOMAIN exports :
        /\ Bound(n, method)
        /\ \/ CbInfoFails(n, method, 3)
           \/ \E h \in HandleArgs, k \in KeyArgs, d \in DefaultArgs(T) :
              \E handle \in NValueToUInt64(h), key \in NValueToString(k, FALSE, FALSE) :
              \E defaultValue \in NValueToT(T, d, key.threw) :
                 /\ IF HasKvAndKey(handle, key.str)
                    THEN \E r \in EngineGet(store, handle, key.str, T, defaultValue.val) :
                            last' = Done(n, method, <<h, k, d>>, TToNValue(T, r),
                                         Count(key.threw),
                                         <<EngCall("get", key.str,
                                                   Native(T, defaultValue.val),
                                                   NoExpiration, Native(T, r))>>)
                    ELSE last' = Done(n, method, <<h, k, d>>,
                                      TToNValue(T, defaultValue.val),
                                      Count(key.threw), <<>>)
                 /\ UNCHANGED <<g_android_tmpDir, store, Others>>

\* decodeString and decodeBytes: the third argument is handed back as it came
\* unless the engine reports a value.
DecodeBufT(T, method) ==
    \E n \in DOMAIN exports :
        /\ Bound(n, method)
        /\ \/ CbInfoFails(n, method, 3)
           \/ \E h \in HandleArgs, k \in KeyArgs, d \in DefaultArgs(T) :
              \E handle \in NValueToUInt64(h), key \in NValueToString(k, FALSE, FALSE) :
                 /\ IF HasKvAndKey(handle, key.str)
                    THEN \E r \in EngineGetBuf(store, handle, key.str, T) :
                            last' = Done(n, method, <<h, k, d>>,
                                         IF r.found THEN TToNValue(T, r.val) ELSE d,
                                         Count(key.threw),
                                         <<EngCall("getBuf", key.str, Absent, NoExpiration,
                                                   IF r.found THEN Native(T, r.val)
                                                   ELSE Absent)>>)
                    ELSE last' = Done(n, method, <<h, k, d>>, d, Count(key.threw), <<>>)
                 /\ UNCHANGED <<g_android_tmpDir, store, Others>>

\* A decodeBool that writes, a decodeString that converts its default.
decodeBoolStoring == EncodeT("Bool", "decodeBool")
decodeStringConverting == DecodeT("String", "decodeString")

encodeBool == EncodeT("Bool", "encodeBool")
decodeBool == DecodeT("Bool", "decodeBool")
encodeInt32 == EncodeT("Int32", "encodeInt32")
decodeInt32 == DecodeT("Int32", "decodeInt32")
encodeUInt32 == EncodeT("UInt32", "encodeUInt32")
decodeUInt32 == DecodeT("UInt32", "decodeUInt32")
encodeInt64 == EncodeT("Int64", "encodeInt64")
decodeInt64 == DecodeT("Int64", "decodeInt64")
encodeUInt64 == EncodeT("UInt64", "encodeUInt64")
decodeUInt64 == DecodeT("UInt64", "decodeUInt64")
encodeDouble == EncodeT("Double", "encodeDouble")
decodeDouble == DecodeT("Double", "decodeDouble")
encodeString == EncodeT("String", "encodeString")
decodeString == DecodeBufT("String", "decodeString")
encodeBytes == EncodeT("Bytes", "encodeBytes")
decodeBytes == DecodeBufT("Bytes", "decodeBytes")

RootDirArgs == {HStr(<<114>>), Undefined}
CacheDirArgs == {HStr(<<99>>), Undefined}
LogLevelArgs == {Num(1), Undefined}

\* initialize(rootDir, cacheDir, logLevel).  The engine's getRootDir() is taken
\* to report the directory initializeMMKV was just given.
initialize ==
    \E n \in DOMAIN exports :
        /\ Bound(n, "initialize")
        /\ \/ CbInfoFails(n, "initialize", 3)
           \/ \E a1 \in RootDirArgs, a2 \in CacheDirArgs, a3 \in LogLevelArgs :
              \E rootDir \in NValueToString(a1, FALSE, FALSE) :
              \E cacheDir \in NValueToString(a2, FALSE, rootDir.threw) :
                 LET isPending == rootDir.threw \/ cacheDir.threw
                     thrown == Count(rootDir.threw) + Count(cacheDir.threw)
                 IN  IF cacheDir.aborts
                     THEN /\ process' = "aborted"
                          /\ last' = Done(n, "initialize", <<a1, a2, Unread>>, NullPtr,
                                          thrown, <<>>)
                          /\ UNCHANGED <<registered, exports, g_android_tmpDir, store,
                                         conv>>
                     ELSE IF a3.kind # "number" /\ NapiCallReturns(isPending)
                     THEN /\ last' = Done(n, "initialize", <<a1, a2, a3>>, NullPtr,
                                          thrown + 1, <<>>)
                          /\ UNCHANGED <<g_android_tmpDir, store, Others>>
                     ELSE \E logLevel \in NValueToInt32(a3) :
                          /\ g_android_tmpDir' = cacheDir.str
                          /\ last' = Done(n, "initialize", <<a1, a2, a3>>,
                                          StringToNValue(rootDir.str), thrown,
                                          <<EngCall("initializeMMKV", rootDir.str,
                                                    Native("Int32", logLevel),
                                                    NoExpiration, Absent)>>)
                          /\ UNCHANGED <<store, Others>>

\* MMKV_VERSION, a string literal of the engine's headers.
MMKV_VERSION == <<118>>

\* version(): NAPI_CALL(napi_create_string_latin1(...)) may fail.
version ==
    \E n \in DOMAIN exports :
        /\ Bound(n, "version")
        /\ \E ok \in BOOLEAN :
              last' = IF ok
                      THEN Done(n, "version", <<>>, HStr(MMKV_VERSION), 0, <<>>)
                      ELSE Done(n, "version", <<>>, NullPtr, 1, <<>>)
        /\ UNCHANGED <<g_android_tmpDir, store, Others>>

ModeArgs == {Num(1), Undefined}
CryptArgs == {Undefined, HStr(<<>>), HStr(<<99>>), Null}

DefaultMMKVCall(mode, crypt, res) ==
    EngCall("defaultMMKV", <<>>, crypt, mode, Native("UInt64", res))

\* getDefaultMMKV(mode, crypt): with the crypt key first when there is one,
\* without it when that gave null.
getDefaultMMKV ==
    \E n \in DOMAIN exports :
        /\ Bound(n, "getDefaultMMKV")
        /\ \/ CbInfoFails(n, "getDefaultMMKV", 2)
           \/ \E a1 \in ModeArgs, a2 \in CryptArgs :
                 IF a1.kind # "number"
                 THEN last' = Done(n, "getDefaultMMKV", <<a1, Unread>>, NullPtr, 1, <<>>)
                 ELSE \E mode \in NValueToInt32(a1) :
                      \E crypt \in NValueToString(a2, TRUE, FALSE) :
                      \E r1 \in DefaultMMKVResults, r2 \in DefaultMMKVResults :
                         LET first == IF Len(crypt.str) > 0
                                      THEN <<DefaultMMKVCall(mode,
                                                 Native("String", crypt.str), r1)>>
                                      ELSE <<>>
                             kv1 == IF Len(crypt.str) > 0 THEN r1 ELSE 0
                             second == IF NeedsPlainInstance(kv1)
                                       THEN <<DefaultMMKVCall(mode, Absent, r2)>>
                                       ELSE <<>>
                             kv == IF NeedsPlainInstance(kv1) THEN r2 ELSE kv1
                         IN  last' = Done(n, "getDefaultMMKV", <<a1, a2>>,
                                          UInt64ToNValue(kv), Count(crypt.threw),
                                          first \o second)
        /\ UNCHANGED <<g_android_tmpDir, store, Others>>

----------------------------------------------------------------------------
\* The bridge from process start.

NoConv == [value |-> Undefined, maybeUndefined |-> FALSE, isPending |-> FALSE,
           done |-> FALSE, out |-> StrOutcome(<<>>, FALSE, FALSE)]

Boot ==
    /\ registered = 0
    /\ exports = <<>>
    /\ g_android_tmpDir = <<>>
    /\ store = [a \in Instances |-> [k \in NativeKeys |-> Absent]]
    /\ process = "running"
    /\ last = NoCall
    /\ conv = NoConv

Next ==
    \/ RegisterMMKVModule
    \/ Init
    \/ initialize
    \/ version
    \/ getDefaultMMKV
    \/ encodeBool
    \/ decodeBool
    \/ encodeInt32
    \/ decodeInt32
    \/ encodeUInt32
    \/ decodeUInt32
    \/ encodeInt64
    \/ decodeInt64
    \/ encodeUInt64
    \/ decodeUInt64
    \/ encodeDouble
    \/ decodeDouble
    \/ encodeString
    \/ decodeString
    \/ encodeBytes
    \/ decodeBytes

Spec == Boot /\ [][Next]_vars

----------------------------------------------------------------------------
\* SpecString: NValueToString applied to one host value.

StringInputs ==
    {HStr(Text(n, c)) : n \in 0..MaxStrLen, c \in {97, 65}}
        \cup {Undefined, Num(7)}

ConvertString ==
    /\ ~conv.done
    /\ \E o \in NValueToString(conv.value, conv.maybeUndefined, conv.isPending) :
           conv' = [conv EXCEPT !.done = TRUE, !.out = o]
    /\ UNCHANGED <<registered, exports, g_android_tmpDir, store, process, last>>


BootString ==
    /\ registered = 0
    /\ exports = <<>>
    /\ g_android_tmpDir = <<>>
    /\ store = [a \in Instances |-> [k \in NativeKeys |-> Absent]]
    /\ process = "running"
    /\ last = NoCall
    /\ \E v \in StringInputs, m \in BOOLEAN, p \in BOOLEAN :
          conv = [NoConv EXCEPT !.value = v, !.maybeUndefined = m, !.isPending = p]

NextString == ConvertString

SpecString == BootString /\ [][NextString]_vars

----------------------------------------------------------------------------
\* What the properties below talk about.

EncodeOf(T) == "encode" \o T
DecodeOf(T) == "decode" \o T
EncodeFns == {EncodeOf(T) : T \in Types}
DecodeFns == {DecodeOf(T) : T \in Types}
TypeOfFn(fn) == CHOOSE T \in Types : fn \in {EncodeOf(T), DecodeOf(T)}

\* The host value v is a value of type T.
Representable(T, v) ==
    CASE T = "Bool" -> v.kind = "boolean"
      [] T = "Int32" ->
            v.kind = "number" /\ -Pow2(Width32 - 1) <= v.val /\ v.val < Pow2(Width32 - 1)
      [] T = "UInt32" -> v.kind = "number" /\ 0 <= v.val /\ v.val < Pow2(Width32)
      [] T = "Int64" ->
            v.kind = "bigint" /\ -Pow2(Width64 - 1) <= v.val /\ v.val < Pow2(Width64 - 1)
      [] T = "UInt64" -> v.kind = "bigint" /\ 0 <= v.val /\ v.val < Pow2(Width64)
      [] T = "Double" -> v.kind = "number"
      [] T = "String" -> v.kind = "string"
      [] T = "Bytes" -> v.kind = "arraybuffer"

\* The latest call got past napi_get_cb_info and read its handle and key.
ReadHandleAndKey == Len(last.args) >= 2 /\ last.args[1] # Unread /\ last.args[2] # Unread
NonNullHandle(h) == h.kind = "bigint" /\ h.val # 0
NonEmptyKey(k) == k.kind = "string" /\ Len(k.val) > 0
SomethingStored == \E a \in DOMAIN store : \E k \in DOMAIN store[a] : store[a][k].type # "absent"

----------------------------------------------------------------------------
\* C1: a value v of type T that encodeT(h, k, v, undefined) stored with
\* result true is what the next decodeT(h, k, d) hands back, whatever d is.
C1_RoundTrip ==
    [][\A T \in Types :
          ( /\ last.fn = EncodeOf(T)
            /\ last.ret = HBool(TRUE)
            /\ Len(last.args) = 4
            /\ NonNullHandle(last.args[1])
            /\ NonEmptyKey(last.args[2])
            /\ Representable(T, last.args[3])
            /\ last.args[4] = Undefined
            /\ last'.fn = DecodeOf(T)
            /\ Len(last'.args) = 3
            /\ last'.args[1] = last.args[1]
            /\ last'.args[2] = last.args[2] )
          => last'.ret = last.args[3]]_vars

\* C2: NValueToString of a host string yields exactly its UTF-8 bytes, in the
\* same number, for every length.
C2_ExactBytes ==
    (conv.done /\ conv.value.kind = "string")
        => (conv.out.str = conv.value.val /\ Len(conv.out.str) = Len(conv.value.val))

\* C3: Init registers 19 properties with distinct names, each bound to the entry
\* point of its own name; the module is registered once, and no entry point
\* runs before that.
EntryPointNames ==
    {"initialize", "version", "getDefaultMMKV"} \cup EncodeFns \cup DecodeFns
C3_DispatchTable ==
    /\ registered <= 1
    /\ Len(desc) = 19
    /\ DOMAIN exports # {} =>
          /\ registered = 1
          /\ Cardinality(DOMAIN exports) = 19
          /\ DOMAIN exports = EntryPointNames
          /\ \A n \in DOMAIN exports : exports[n] = n
    /\ last.fn # "" =>
          /\ registered = 1
          /\ last.name \in DOMAIN exports
          /\ last.fn = last.name
C3_Witness ==
    /\ Cardinality(DOMAIN exports) = 19
    /\ last.name = "decodeBytes"
    /\ last.fn = "decodeBytes"
    /\ Len(last.calls) = 1

\* C4: a decodeT or version call leaves the engine's contents and the bridge's
\* global as they were, decodeT making at most one engine call, a read; the
\* global g_android_tmpDir changes in initialize only.
C4_DecodeFrame ==
    [][ /\ last'.fn \in DecodeFns \cup {"version"} =>
             /\ store' = store
             /\ g_android_tmpDir' = g_android_tmpDir
             /\ Len(last'.calls) <= 1
             /\ \A i \in DOMAIN last'.calls : last'.calls[i].op \in {"get", "getBuf"}
             /\ last'.fn = "version" => last'.calls = <<>>
        /\ g_android_tmpDir' # g_android_tmpDir => last'.fn = "initialize" ]_vars
C4_Witness ==
    /\ last.fn = "decodeInt64"
    /\ Len(last.calls) = 1
    /\ last.calls[1].op = "get"
    /\ SomethingStored

\* What a host value of type T denotes as a native value.
Denotes(T, v) ==
    CASE T = "Int32" -> WrapSigned(v.val, Width32)
      [] T = "UInt32" -> WrapUnsigned(v.val, Width32)
      [] T = "Int64" -> WrapSigned(v.val, Width64)
      [] T = "UInt64" -> WrapUnsigned(v.val, Width64)
      [] OTHER -> v.val
WellTyped(T, v) ==
    v.kind = (CASE T = "Bool" -> "boolean"
                [] T \in {"Int32", "UInt32", "Double"} -> "number"
                [] T \in {"Int64", "UInt64"} -> "bigint"
                [] T = "String" -> "string"
                [] T = "Bytes" -> "arraybuffer")

\* C5: encodeT(h, k, v, e) with a non-null handle and a non-empty key makes
\* exactly one engine call, set(v, k) when e is undefined and set(v, k, x) with
\* x = e as a 32-bit unsigned integer otherwise, and returns its result.
C5_OneSetCall ==
    \A T \in Types :
        ( /\ last.fn = EncodeOf(T)
          /\ ReadHandleAndKey
          /\ NonNullHandle(last.args[1])
          /\ NonEmptyKey(last.args[2]) )
        => /\ Len(last.calls) = 1
           /\ LET c == last.calls[1]
                  v == last.args[3]
                  e == last.args[4]
              IN  /\ c.op = "set"
                  /\ c.key = last.args[2].val
                  /\ c.val.type = T
                  /\ WellTyped(T, v) => c.val.data = Denotes(T, v)
                  /\ e = Undefined => c.exp = NoExpiration
                  /\ e # Undefined => c.exp \in 0..(Pow2(Width32) - 1)
                  /\ e.kind = "number" => c.exp = e.val % Pow2(Width32)
                  /\ last.ret = HBool(c.res.data)

\* C6: encodeT with a null handle or an empty key returns false, calls the
\* engine not at all, converts neither value nor expiration, and leaves the
\* engine's contents as they were.
C6_NullHandleOrEmptyKey ==
    [][ ( /\ last'.fn \in EncodeFns
          /\ Len(last'.args) = 4
          /\ last'.args[1] # Unread
          /\ last'.args[1] = BigInt(0) \/ last'.args[2] = HStr(<<>>) )
        => /\ last'.ret = HBool(FALSE)
           /\ last'.calls = <<>>
           /\ last'.args[3] = Unread
           /\ last'.args[4] = Unread
           /\ store' = store ]_vars
C6_Witness ==
    /\ last.fn = "encodeBytes"
    /\ last.args[1] # BigInt(0)
    /\ last.args[2] = HStr(<<>>)
    /\ last.ret = HBool(FALSE)
    /\ SomethingStored

\* The native key the bridge makes of a host string.
KeyOf(k) == (CHOOSE o \in NValueToString(k, FALSE, FALSE) : TRUE).str
KeyAbsent(h, k) == store[h.val][KeyOf(k)].type = "absent"

\* C7: with a null handle, an empty key or a key the engine does not hold,
\* a scalar decodeT returns the default converted to native and back (without
\* an engine call in the first two cases, as the engine's result in the third),
\* and decodeString / decodeBytes return their third argument itself; these two
\* return an engine value only when the engine reports one.
C7_DefaultReturned ==
    \A T \in Types :
        ( /\ last.fn = DecodeOf(T)
          /\ ReadHandleAndKey
          /\ last.args[2].kind = "string" )
        => LET h == last.args[1]
               k == last.args[2]
               d == last.args[3]
               noCall == h = BigInt(0) \/ k = HStr(<<>>)
           IN  /\ noCall => last.calls = <<>>
               /\ ~noCall => Len(last.calls) = 1
               /\ (T \in ScalarTypes /\ (noCall \/ KeyAbsent(h, k))) =>
                     /\ \E x \in NValueToT(T, d, FALSE) : last.ret = TToNValue(T, x.val)
                     /\ Representable(T, d) => last.ret = d
                     /\ ~noCall => last.ret = TToNValue(T, last.calls[1].res.data)
               /\ (T \notin ScalarTypes /\ (noCall \/ KeyAbsent(h, k))) => last.ret = d
               /\ T \notin ScalarTypes =>
                     \/ last.ret = d
                     \/ /\ ~noCall
                        /\ last.calls[1].res.type = T
                        /\ last.ret = TToNValue(T, last.calls[1].res.data)
C7_Witness ==
    /\ last.fn = "decodeString"
    /\ NonNullHandle(last.args[1])
    /\ NonEmptyKey(last.args[2])
    /\ Len(last.calls) = 1
    /\ last.calls[1].res.type = "absent"
    /\ last.ret = last.args[3]
    /\ last.ret = HStr(<<100>>)

\* C8: a key that is not a host string makes encodeT and decodeT throw exactly
\* one host error, call the engine not at all and return false (encodeT), the
\* converted default (scalar decodeT) or the third argument (decodeString,
\* decodeBytes), the engine's contents staying as they were.
C8_KeyNotAString ==
    [][ \A T \in Types :
          ( /\ last'.fn \in {EncodeOf(T), DecodeOf(T)}
            /\ Len(last'.args) >= 3
            /\ last'.args[2] # Unread
            /\ last'.args[2].kind # "string" )
          => /\ last'.thrown = 1
             /\ last'.calls = <<>>
             /\ store' = store
             /\ last'.fn = EncodeOf(T) => last'.ret = HBool(FALSE)
             /\ (last'.fn = DecodeOf(T) /\ T \in ScalarTypes) =>
                   \E x \in NValueToT(T, last'.args[3], TRUE) :
                       last'.ret = TToNValue(T, x.val)
             /\ (last'.fn = DecodeOf(T) /\ T \notin ScalarTypes) =>
                   last'.ret = last'.args[3] ]_vars
C8_Witness ==
    /\ last.fn = "decodeUInt32"
    /\ last.args[1] # BigInt(0)
    /\ last.args[2] = Undefined
    /\ last.thrown = 1
    /\ last.ret = Num(7)
    /\ SomethingStored

\* The host call NAPI_CALL wraps in the latest entry point failed: the
\* napi_get_cb_info of any of them, napi_create_string_latin1 in version, or
\* the napi_get_value_int32 of initialize and getDefaultMMKV.
CbInfoFailed == last.fn # "" /\ \A i \in DOMAIN last.args : last.args[i] = Unread
WrappedCallFailed ==
    \/ last.fn \notin {"", "version"} /\ CbInfoFailed
    \/ last.fn = "version" /\ last.thrown > 0
    \/ last.fn = "initialize" /\ last.args[3].kind \notin {"unread", "number"}
    \/ last.fn = "getDefaultMMKV" /\ last.args[1].kind \notin {"unread", "number"}

\* NValueToString failed on the cacheDir argument of initialize.
CacheDirCallFailed ==
    last.fn = "initialize" /\ last.args[2].kind \notin {"unread", "string"}

\* C9: an entry point whose wrapped host call fails returns nullptr at once,
\* before any engine call, and NValueToString whose host call fails returns the
\* empty string, an exception pending or not; one host error at most is thrown.
C9_FailedCallReturns ==
    /\ WrappedCallFailed =>
          /\ last.ret = NullPtr
          /\ last.calls = <<>>
          /\ last.thrown <= 1
    /\ CacheDirCallFailed =>
          /\ process = "running"
          /\ last.calls # <<>> => g_android_tmpDir = <<>>

BytesOf(v) == IF v.kind = "arraybuffer" THEN v.val ELSE <<>>

Mod64(b) == b % Pow2(Width64)
Mod64Signed(b) ==
    IF Mod64(b) >= Pow2(Width64 - 1) THEN Mod64(b) - Pow2(Width64) ELSE Mod64(b)
InRange64(T, b) ==
    IF T = "Int64" THEN -Pow2(Width64 - 1) <= b /\ b < Pow2(Width64 - 1)
    ELSE 0 <= b /\ b < Pow2(Width64)
\* The ends of the two 64-bit ranges.
Corners64(T) ==
    IF T = "Int64" THEN {-Pow2(Width64 - 1), -1, 0, Pow2(Width64 - 1) - 1}
    ELSE {0, Pow2(Width64 - 1), Pow2(Width64) - 1}

\* C12: encodeInt64 / encodeUInt64 of a host big integer b hand the engine b
\* modulo 2^64 (read as signed for Int64), so b itself when it is in range,
\* throw nothing and return the engine's result; Int64ToNValue / UInt64ToNValue
\* give back the big integer equal to the native value.
C12_Wraps64 ==
    \A T \in {"Int64", "UInt64"} :
        /\ ( /\ last.fn = EncodeOf(T)
             /\ Len(last.args) = 4
             /\ NonNullHandle(last.args[1])
             /\ NonEmptyKey(last.args[2])
             /\ last.args[3].kind = "bigint" )
           => /\ Len(last.calls) = 1
              /\ last.calls[1].op = "set"
              /\ last.calls[1].val.type = T
              /\ last.calls[1].val.data =
                    (IF T = "Int64" THEN Mod64Signed(last.args[3].val)
                     ELSE Mod64(last.args[3].val))
              /\ InRange64(T, last.args[3].val) =>
                    last.calls[1].val.data = last.args[3].val
              /\ last.thrown = 0
              /\ last.ret = HBool(last.calls[1].res.data)
        /\ (last.fn = DecodeOf(T) /\ Len(last.calls) = 1)
           => last.ret = BigInt(last.calls[1].res.data)
        /\ \A x \in Corners64(T) : TToNValue(T, x) = BigInt(x)
C12_Witness ==
    /\ last.fn = "encodeUInt64"
    /\ last.args[3] = BigInt(-1)
    /\ Len(last.calls) = 1
    /\ last.calls[1].val.data = Pow2(Width64) - 1
    /\ last.ret = HBool(TRUE)
    /\ SomethingStored

====
